---- MODULE Spec2Model ----
(***************************************************************************)
(* The two maintenance scripts of the repository as one state machine over *)
(* a filesystem:                                                           *)
(*   scripts/rename-edra-to-kebab.py  (the Renamer)                        *)
(*   scripts/fix-edra-imports.py      (the Import Fixer)                   *)
(* File contents and paths are strings; str.replace, `in`, rglob and the   *)
(* rename are computed on them character by character.                     *)
(***************************************************************************)
EXTENDS Integers, Sequences, FiniteSets, TLC

VARIABLES
  fs,             \* the filesystem: a function from the existing paths to their content
  fs0,            \* the filesystem before the first invocation
  runstart,       \* the filesystem when the current invocation started
  pc,             \* "idle" | "rename" | "scan" | "done" | "aborted"
  script,         \* the script of the current (or last) invocation
  idx,            \* the Renamer's position in RENAMES (1-based)
  todo,           \* files_to_update not yet visited by the for loop
  files_updated,  \* the Import Fixer's counter
  out,            \* standard output of the current invocation, line by line
  history,        \* the scripts that ran to completion, oldest first
  moves,          \* the external calls of the first pass and how each ended
  writes,         \* the paths write_text was called on in the current invocation
  text,           \* a content under the replacement loop taken in another order
  text0,          \* that content before the loop
  order,          \* the order the loop takes the pairs in
  pos             \* how many pairs of that order were applied

vars == <<fs, fs0, runstart, pc, script, idx, todo, files_updated, out, history,
          moves, writes, text, text0, order, pos>>

fsvars == <<fs, fs0, runstart, pc, script, idx, todo, files_updated, out, history,
            moves, writes>>

ordervars == <<text, text0, order, pos>>

\* The (source, destination) pairs, in list order.
RENAMES ==
  << <<"src/lib/components/edra/components/MediaPlaceHolder.svelte",
        "src/lib/components/edra/components/media-placeholder.svelte">>,
     <<"src/lib/components/edra/components/BubbleMenu.svelte",
        "src/lib/components/edra/components/bubble-menu.svelte">>,
     <<"src/lib/components/edra/components/DragHandle.svelte",
        "src/lib/components/edra/components/drag-handle.svelte">>,
     <<"src/lib/components/edra/extensions/FindAndReplace.ts",
        "src/lib/components/edra/extensions/find-and-replace.ts">>,
     <<"src/lib/components/edra/extensions/InlineMathReplacer.ts",
        "src/lib/components/edra/extensions/inline-math-replacer.ts">>,
     <<"src/lib/components/edra/extensions/ColorHighlighter.ts",
        "src/lib/components/edra/extensions/color-highlighter.ts">>,
     <<"src/lib/components/edra/extensions/video/VideoPlaceholder.ts",
        "src/lib/components/edra/extensions/video/video-placeholder.ts">>,
     <<"src/lib/components/edra/extensions/video/VideoExtension.ts",
        "src/lib/components/edra/extensions/video/video-extension.ts">>,
     <<"src/lib/components/edra/extensions/video/VideoExtended.ts",
        "src/lib/components/edra/extensions/video/video-extended.ts">>,
     <<"src/lib/components/edra/extensions/iframe/IFramePlaceholder.ts",
        "src/lib/components/edra/extensions/iframe/iframe-placeholder.ts">>,
     <<"src/lib/components/edra/extensions/iframe/IFrame.ts",
        "src/lib/components/edra/extensions/iframe/iframe.ts">>,
     <<"src/lib/components/edra/extensions/iframe/IFrameExtended.ts",
        "src/lib/components/edra/extensions/iframe/iframe-extended.ts">>,
     <<"src/lib/components/edra/extensions/audio/AudioPlaceholder.ts",
        "src/lib/components/edra/extensions/audio/audio-placeholder.ts">>,
     <<"src/lib/components/edra/extensions/audio/AudiExtended.ts",
        "src/lib/components/edra/extensions/audio/audio-extended.ts">>,
     <<"src/lib/components/edra/extensions/audio/AudioExtension.ts",
        "src/lib/components/edra/extensions/audio/audio-extension.ts">>,
     <<"src/lib/components/edra/extensions/image/ImageExtended.ts",
        "src/lib/components/edra/extensions/image/image-extended.ts">>,
     <<"src/lib/components/edra/extensions/image/ImagePlaceholder.ts",
        "src/lib/components/edra/extensions/image/image-placeholder.ts">>,
     <<"src/lib/components/edra/extensions/drag-handle/ClipboardSerializer.ts",
        "src/lib/components/edra/extensions/drag-handle/clipboard-serializer.ts">>,
     <<"src/lib/components/edra/shadcn/components/IFrameExtended.svelte",
        "src/lib/components/edra/shadcn/components/iframe-extended.svelte">>,
     <<"src/lib/components/edra/shadcn/components/VideoExtended.svelte",
        "src/lib/components/edra/shadcn/components/video-extended.svelte">>,
     <<"src/lib/components/edra/shadcn/components/VideoPlaceholder.svelte",
        "src/lib/components/edra/shadcn/components/video-placeholder.svelte">>,
     <<"src/lib/components/edra/shadcn/components/EdraToolTip.svelte",
        "src/lib/components/edra/shadcn/components/edra-tooltip.svelte">>,
     <<"src/lib/components/edra/shadcn/components/IFramePlaceHolder.svelte",
        "src/lib/components/edra/shadcn/components/iframe-placeholder.svelte">>,
     <<"src/lib/components/edra/shadcn/components/ImagePlaceholder.svelte",
        "src/lib/components/edra/shadcn/components/image-placeholder.svelte">>,
     <<"src/lib/components/edra/shadcn/components/MediaExtended.svelte",
        "src/lib/components/edra/shadcn/components/media-extended.svelte">>,
     <<"src/lib/components/edra/shadcn/components/CodeBlock.svelte",
        "src/lib/components/edra/shadcn/components/code-block.svelte">>,
     <<"src/lib/components/edra/shadcn/components/AudioExtended.svelte",
        "src/lib/components/edra/shadcn/components/audio-extended.svelte">>,
     <<"src/lib/components/edra/shadcn/components/SlashCommandList.svelte",
        "src/lib/components/edra/shadcn/components/slash-command-list.svelte">>,
     <<"src/lib/components/edra/shadcn/components/AudioPlaceHolder.svelte",
        "src/lib/components/edra/shadcn/components/audio-placeholder.svelte">>,
     <<"src/lib/components/edra/shadcn/components/ImageExtended.svelte",
        "src/lib/components/edra/shadcn/components/image-extended.svelte">>,
     <<"src/lib/components/edra/shadcn/components/ToolBarIcon.svelte",
        "src/lib/components/edra/shadcn/components/toolbar-icon.svelte">>,
     <<"src/lib/components/edra/shadcn/components/toolbar/Alignment.svelte",
        "src/lib/components/edra/shadcn/components/toolbar/alignment.svelte">>,
     <<"src/lib/components/edra/shadcn/components/toolbar/QuickColors.svelte",
        "src/lib/components/edra/shadcn/components/toolbar/quick-colors.svelte">>,
     <<"src/lib/components/edra/shadcn/components/toolbar/Headings.svelte",
        "src/lib/components/edra/shadcn/components/toolbar/headings.svelte">>,
     <<"src/lib/components/edra/shadcn/components/toolbar/SearchAndReplace.svelte",
        "src/lib/components/edra/shadcn/components/toolbar/search-and-replace.svelte">>,
     <<"src/lib/components/edra/shadcn/components/toolbar/FontSize.svelte",
        "src/lib/components/edra/shadcn/components/toolbar/font-size.svelte">>,
     <<"src/lib/components/edra/shadcn/menus/TableRow.svelte",
        "src/lib/components/edra/shadcn/menus/table-row.svelte">>,
     <<"src/lib/components/edra/shadcn/menus/TableCol.svelte",
        "src/lib/components/edra/shadcn/menus/table-col.svelte">>,
     <<"src/lib/components/edra/shadcn/menus/Menu.svelte",
        "src/lib/components/edra/shadcn/menus/menu.svelte">>,
     <<"src/lib/components/edra/shadcn/menus/Link.svelte",
        "src/lib/components/edra/shadcn/menus/link.svelte">> >>

\* The Renamer's second-pass mapping, in dict insertion (= iteration) order.
replacements ==
  << <<"MediaPlaceHolder.svelte", "media-placeholder.svelte">>,
     <<"BubbleMenu.svelte", "bubble-menu.svelte">>,
     <<"DragHandle.svelte", "drag-handle.svelte">>,
     <<"FindAndReplace.ts", "find-and-replace.ts">>,
     <<"InlineMathReplacer.ts", "inline-math-replacer.ts">>,
     <<"ColorHighlighter.ts", "color-highlighter.ts">>,
     <<"VideoPlaceholder.ts", "video-placeholder.ts">>,
     <<"VideoExtension.ts", "video-extension.ts">>,
     <<"VideoExtended.ts", "video-extended.ts">>,
     <<"IFramePlaceholder.ts", "iframe-placeholder.ts">>,
     <<"IFrame.ts", "iframe.ts">>,
     <<"IFrameExtended.ts", "iframe-extended.ts">>,
     <<"AudioPlaceholder.ts", "audio-placeholder.ts">>,
     <<"AudiExtended.ts", "audio-extended.ts">>,
     <<"AudioExtension.ts", "audio-extension.ts">>,
     <<"ImageExtended.ts", "image-extended.ts">>,
     <<"ImagePlaceholder.ts", "image-placeholder.ts">>,
     <<"ClipboardSerializer.ts", "clipboard-serializer.ts">>,
     <<"IFrameExtended.svelte", "iframe-extended.svelte">>,
     <<"VideoExtended.svelte", "video-extended.svelte">>,
     <<"VideoPlaceholder.svelte", "video-placeholder.svelte">>,
     <<"EdraToolTip.svelte", "edra-tooltip.svelte">>,
     <<"IFramePlaceHolder.svelte", "iframe-placeholder.svelte">>,
     <<"ImagePlaceholder.svelte", "image-placeholder.svelte">>,
     <<"MediaExtended.svelte", "media-extended.svelte">>,
     <<"CodeBlock.svelte", "code-block.svelte">>,
     <<"AudioExtended.svelte", "audio-extended.svelte">>,
     <<"SlashCommandList.svelte", "slash-command-list.svelte">>,
     <<"AudioPlaceHolder.svelte", "audio-placeholder.svelte">>,
     <<"ImageExtended.svelte", "image-extended.svelte">>,
     <<"ToolBarIcon.svelte", "toolbar-icon.svelte">>,
     <<"Alignment.svelte", "alignment.svelte">>,
     <<"QuickColors.svelte", "quick-colors.svelte">>,
     <<"Headings.svelte", "headings.svelte">>,
     <<"SearchAndReplace.svelte", "search-and-replace.svelte">>,
     <<"FontSize.svelte", "font-size.svelte">>,
     <<"TableRow.svelte", "table-row.svelte">>,
     <<"TableCol.svelte", "table-col.svelte">>,
     <<"Menu.svelte", "menu.svelte">>,
     <<"Link.svelte", "link.svelte">> >>

\* The Import Fixer's mapping, in dict insertion (= iteration) order.
IMPORT_REPLACEMENTS ==
  << <<"ColorHighlighter.js", "color-highlighter.js">>,
     <<"FindAndReplace.js", "find-and-replace.js">>,
     <<"InlineMathReplacer.js", "inline-math-replacer.js">>,
     <<"VideoPlaceholder.js", "video-placeholder.js">>,
     <<"VideoExtension.js", "video-extension.js">>,
     <<"VideoExtended.js", "video-extended.js">>,
     <<"IFramePlaceholder.js", "iframe-placeholder.js">>,
     <<"IFrame.js", "iframe.js">>,
     <<"IFrameExtended.js", "iframe-extended.js">>,
     <<"AudioPlaceholder.js", "audio-placeholder.js">>,
     <<"AudiExtended.js", "audio-extended.js">>,
     <<"AudioExtension.js", "audio-extension.js">>,
     <<"ImageExtended.js", "image-extended.js">>,
     <<"ImagePlaceholder.js", "image-placeholder.js">>,
     <<"ClipboardSerializer.js", "clipboard-serializer.js">> >>

edra_dir == "src/lib/components/edra"

----------------------------------------------------------------------------
(* Strings *)

\* s.startswith(p)
StartsWith(s, p) == Len(s) >= Len(p) /\ SubSeq(s, 1, Len(p)) = p

\* s.endswith(p)
EndsWith(s, p) == Len(s) >= Len(p) /\ SubSeq(s, Len(s) - Len(p) + 1, Len(s)) = p

\* `k in s` for strings
Contains(s, k) ==
  \E i \in 1..(Len(s) - Len(k) + 1) : SubSeq(s, i, i + Len(k) - 1) = k

\* The positions where old occurs in s.
Occurrences(s, old) ==
  {i \in 1..(Len(s) - Len(old) + 1) : SubSeq(s, i, i + Len(old) - 1) = old}

\* The least element of a non-empty set of numbers.
Min(S) == CHOOSE i \in S : \A j \in S : i <= j

\* A buggy str.replace: only the leftmost occurrence is replaced.
replace_first(s, old, new) ==
  IF Occurrences(s, old) = {} THEN s
  ELSE LET i == Min(Occurrences(s, old)) IN
       SubSeq(s, 1, i - 1) \o new \o SubSeq(s, i + Len(old), Len(s))

\* str.replace(old, new): every non-overlapping occurrence of old, found left
\* to right, is replaced; the text put in is not scanned again.
RECURSIVE replace(_, _, _)
replace(s, old, new) ==
  IF Occurrences(s, old) = {} THEN s
  ELSE LET i == Min(Occurrences(s, old)) IN
       SubSeq(s, 1, i - 1) \o new
         \o replace(SubSeq(s, i + Len(old), Len(s)), old, new)

----------------------------------------------------------------------------
(* The pieces of the two main() procedures *)

\* `for old_name, new_name in replacements.items()`: the i-th pair
old_name(i) == replacements[i][1]

\* A mapping with a slip in one value: "Menu.svelte" is sent to another key.
new_name_typo(i) ==
  IF replacements[i][1] = "Menu.svelte" THEN "Link.svelte" ELSE replacements[i][2]

new_name(i) == replacements[i][2]

\* `for old_import, new_import in IMPORT_REPLACEMENTS.items()`: the i-th pair
old_import(i) == IMPORT_REPLACEMENTS[i][1]

\* A mapping with a slip in one value: "IFrame.js" keeps its capitals and gets
\* the extension of the Renamer's keys.
new_import_typo(i) ==
  IF IMPORT_REPLACEMENTS[i][1] = "IFrame.js" THEN "IFrame.ts"
  ELSE IMPORT_REPLACEMENTS[i][2]

new_import(i) == IMPORT_REPLACEMENTS[i][2]

\* The Renamer's replacement loop over the pairs i..j in iteration order:
\* `content = content.replace(old_name, new_name)` for each pair in turn. The
\* range is taken as its first half followed by its second half, which is the
\* same sequence of replacements.
RenamerLoop[content \in STRING, i \in 1..Len(replacements), j \in 1..Len(replacements)] ==
  IF i = j THEN replace(content, old_name(i), new_name(i))
  ELSE RenamerLoop[RenamerLoop[content, i, (i + j) \div 2], (i + j) \div 2 + 1, j]

\* The whole loop: lines 151-152.
RenamerReplace(content) == RenamerLoop[content, 1, Len(replacements)]

\* The Import Fixer's replacement loop over the pairs i..j in iteration order:
\* `if old_import in content: content = content.replace(old_import, new_import)`
\* for each pair in turn, the range taken as its two halves one after the other.
FixerLoop[content \in STRING, i \in 1..Len(IMPORT_REPLACEMENTS), j \in 1..Len(IMPORT_REPLACEMENTS)] ==
  IF i = j
  THEN IF Contains(content, old_import(i))
       THEN replace(content, old_import(i), new_import(i))
       ELSE content
  ELSE FixerLoop[FixerLoop[content, i, (i + j) \div 2], (i + j) \div 2 + 1, j]

\* The whole loop: lines 57-59.
FixerReplace(content) == FixerLoop[content, 1, Len(IMPORT_REPLACEMENTS)]

\* list(edra_dir.rglob("*.ts")) + list(edra_dir.rglob("*.svelte")), as a set
files_to_update(f) ==
  {p \in DOMAIN f : /\ StartsWith(p, edra_dir \o "/")
                    /\ EndsWith(p, ".ts") \/ EndsWith(p, ".svelte")}

\* The files the for loop may visit next: the *.ts list comes before the
\* *.svelte list; the order inside each list is the directory's.
NextFiles(t) ==
  IF \E p \in t : EndsWith(p, ".ts") THEN {p \in t : EndsWith(p, ".ts")} ELSE t

\* A buggy move: the content arrives at dest and src is left in place.
CopyFile(f, src, dest) ==
  [p \in DOMAIN f \cup {dest} |-> IF p = dest THEN f[src] ELSE f[p]]

\* `git mv src dest` that succeeds, and Path.rename (POSIX rename(2), which
\* replaces an existing dest): src is gone, dest holds what src held.
Move(f, src, dest) ==
  [p \in (DOMAIN f \ {src}) \cup {dest} |-> IF p = dest THEN f[src] ELSE f[p]]

\* file_path.write_text(content)
WriteText(f, p, content) == [f EXCEPT ![p] = content]

\* The first pass over the pairs i..k when every move succeeds. A pair whose
\* source does not exist changes no file, so the loop is taken from one pair
\* whose source exists (when its turn comes) to the next.
RECURSIVE FirstPass(_, _, _)
FirstPass(f, i, k) ==
  IF \A j \in i..k : RENAMES[j][1] \notin DOMAIN f THEN f
  ELSE LET j == Min({n \in i..k : RENAMES[n][1] \in DOMAIN f}) IN
       FirstPass(Move(f, RENAMES[j][1], RENAMES[j][2]), j + 1, k)

\* The second pass when every read and write succeeds.
SecondPass(f) ==
  [p \in DOMAIN f |->
     IF p \in files_to_update(f) THEN RenamerReplace(f[p]) ELSE f[p]]

\* A run of the Renamer that reaches its last line.
RenamerRun(f) == SecondPass(FirstPass(f, 1, Len(RENAMES)))

\* A run of the Import Fixer that reaches its last line.
FixerRun(f) ==
  [p \in DOMAIN f |->
     IF p \in files_to_update(f) THEN FixerReplace(f[p]) ELSE f[p]]

\* One line of standard output.
Line(kind, path, n) == [kind |-> kind, path |-> path, n |-> n]

\* One external call of the first pass: git's end and the fallback's.
Call(i, git, mv) == [i |-> i, git |-> git, mv |-> mv]

----------------------------------------------------------------------------
(* Bounds and inputs *)

MaxFiles == 2

MaxRuns == 2

\* The files the filesystem may hold before the first invocation.
InitFiles ==
  { [path |-> "src/lib/components/edra/components/BubbleMenu.svelte",
     content |-> "import Menu from '../shadcn/menus/Menu.svelte'"],
    [path |-> "src/lib/components/edra/components/BubbleMenu.svelte",
     content |-> "<div class='bubble'/>"],
    [path |-> "src/lib/components/edra/shadcn/menus/Menu.svelte",
     content |-> "import Bubble from './BubbleMenu.svelte'"],
    [path |-> "src/lib/components/edra/shadcn/menus/menu.svelte",
     content |-> "<menu/>"],
    [path |-> "src/lib/components/edra/extensions/video/VideoExtension.ts",
     content |-> "import X from './VideoExtension.js'"],
    [path |-> "src/lib/components/edra/editor.ts",
     content |-> "import './IFrame.ts'; import './IFrame.ts'; import './IFrame.js'; import './IFrame.js'"],
    [path |-> "src/lib/components/edra/editor.ts",
     content |-> "MediaPlaceHolder.sveltEdraToolTip.svelte"],
    [path |-> "src/lib/components/edra/utils.ts",
     content |-> "ColorHighlighter.jSlashCommandList.svelte"],
    [path |-> "src/lib/components/edra/index.ts",
     content |-> "IFrame.jIFrame.js"],
    [path |-> "src/lib/components/edra/README.md",
     content |-> "see Menu.svelte and IFrame.js"],
    [path |-> "src/routes/+page.svelte",
     content |-> "import './Menu.svelte'; import './IFrame.js'"] }

\* The contents the replacement loop is tried on in other orders.
Contents ==
  {x.content : x \in InitFiles}
    \cup {"BubbleMenu.svelte", "import './Menu.svelte'", "Link.sveltEdraToolTip.svelte",
          "import A from './AudiExtended.ts'; import B from './AudioExtended.svelte'"}

\* The iteration order advanced by k places, wrapping around.
Rotation(k) ==
  [i \in 1..Len(replacements) |-> ((i + k - 1) % Len(replacements)) + 1]

\* The iteration order backwards.
Reversed == [i \in 1..Len(replacements) |-> Len(replacements) + 1 - i]

\* The orders tried: the mapping's own (Rotation(0)), its rotations, its reverse.
Orders == {Rotation(k) : k \in 0..(Len(replacements) - 1)} \cup {Reversed}

----------------------------------------------------------------------------
(* Initial states *)

NoOrder == /\ text = "" /\ text0 = "" /\ order = <<>> /\ pos = 0

Init ==
  /\ \E S \in SUBSET InitFiles :
       /\ Cardinality(S) <= MaxFiles
       /\ \A x, y \in S : x.path = y.path => x = y
       /\ fs = [p \in {x.path : x \in S} |->
                  (CHOOSE x \in S : x.path = p).content]
  /\ fs0 = fs
  /\ runstart = fs
  /\ pc = "idle"
  /\ script = "none"
  /\ idx = 0
  /\ todo = {}
  /\ files_updated = 0
  /\ out = <<>>
  /\ history = <<>>
  /\ moves = <<>>
  /\ writes = {}
  /\ NoOrder

----------------------------------------------------------------------------
(* The Renamer: scripts/rename-edra-to-kebab.py, main() *)

InRename == pc = "rename" /\ script = "renamer" /\ idx <= Len(RENAMES)

\* The developer runs the Renamer: chdir, the first print, the loop begins.
StartRenamer ==
  /\ pc \in {"idle", "done"}
  /\ Len(history) < MaxRuns
  /\ script' = "renamer"
  /\ pc' = "rename"
  /\ idx' = 1
  /\ runstart' = fs
  /\ out' = <<Line("Starting file renames...", "", 0)>>
  /\ moves' = <<>>
  /\ writes' = {}
  /\ todo' = {}
  /\ files_updated' = 0
  /\ UNCHANGED <<fs, fs0, history, ordervars>>

\* A buggy else branch: a missing source ends the run.
WarnMissingRaises ==
  /\ InRename
  /\ RENAMES[idx][1] \notin DOMAIN fs
  /\ out' = Append(out, Line("Warning: File not found", RENAMES[idx][1], 0))
  /\ pc' = "aborted"
  /\ UNCHANGED <<fs, fs0, runstart, script, idx, todo, files_updated, history,
                 moves, writes, ordervars>>

\* else: the source does not exist; warn and go on to the next pair.
WarnMissing ==
  /\ InRename
  /\ RENAMES[idx][1] \notin DOMAIN fs
  /\ out' = Append(out, Line("Warning: File not found", RENAMES[idx][1], 0))
  /\ idx' = idx + 1
  /\ UNCHANGED <<fs, fs0, runstart, pc, script, todo, files_updated, history,
                 moves, writes, ordervars>>

\* The source exists and `git mv` exits 0. git refuses an existing destination.
RenameByGit ==
  /\ InRename
  /\ RENAMES[idx][1] \in DOMAIN fs
  /\ RENAMES[idx][2] \notin DOMAIN fs
  /\ out' = Append(out, Line("Renaming", RENAMES[idx][1], 0))
  /\ moves' = Append(moves, Call(idx, "ok", "none"))
  /\ fs' = Move(fs, RENAMES[idx][1], RENAMES[idx][2])
  /\ idx' = idx + 1
  /\ UNCHANGED <<fs0, runstart, pc, script, todo, files_updated, history, writes,
                 ordervars>>

\* `git mv` exits non-zero (CalledProcessError) and src_path.rename succeeds.
RenameByFallback ==
  /\ InRename
  /\ RENAMES[idx][1] \in DOMAIN fs
  /\ out' = Append(out, Line("Renaming", RENAMES[idx][1], 0))
  /\ moves' = Append(moves, Call(idx, "exit", "ok"))
  /\ fs' = Move(fs, RENAMES[idx][1], RENAMES[idx][2])
  /\ idx' = idx + 1
  /\ UNCHANGED <<fs0, runstart, pc, script, todo, files_updated, history, writes,
                 ordervars>>

\* A buggy failure path: the renames made so far are undone before the run ends.
FallbackFailsRollsBack ==
  /\ InRename
  /\ RENAMES[idx][1] \in DOMAIN fs
  /\ out' = Append(out, Line("Renaming", RENAMES[idx][1], 0))
  /\ moves' = Append(moves, Call(idx, "exit", "fail"))
  /\ fs' = runstart
  /\ pc' = "aborted"
  /\ UNCHANGED <<fs0, runstart, script, idx, todo, files_updated, history, writes,
                 ordervars>>

\* `git mv` exits non-zero and src_path.rename raises OSError, which nothing
\* catches: the run ends there.
FallbackFails ==
  /\ InRename
  /\ RENAMES[idx][1] \in DOMAIN fs
  /\ out' = Append(out, Line("Renaming", RENAMES[idx][1], 0))
  /\ moves' = Append(moves, Call(idx, "exit", "fail"))
  /\ pc' = "aborted"
  /\ UNCHANGED <<fs, fs0, runstart, script, idx, todo, files_updated, history,
                 writes, ordervars>>

\* git cannot be launched: subprocess.run raises FileNotFoundError (or
\* PermissionError), which is no CalledProcessError, so the except clause does
\* not catch it and the run ends there.
GitNotLaunched ==
  /\ InRename
  /\ RENAMES[idx][1] \in DOMAIN fs
  /\ out' = Append(out, Line("Renaming", RENAMES[idx][1], 0))
  /\ moves' = Append(moves, Call(idx, "nolaunch", "none"))
  /\ pc' = "aborted"
  /\ UNCHANGED <<fs, fs0, runstart, script, idx, todo, files_updated, history,
                 writes, ordervars>>

\* The loop over RENAMES is over: two prints, then the files are enumerated.
BeginSecondPass ==
  /\ pc = "rename" /\ script = "renamer" /\ idx > Len(RENAMES)
  /\ out' = out \o <<Line("File renames complete!", "", 0),
                     Line("Now updating imports in all files...", "", 0)>>
  /\ todo' = files_to_update(fs)
  /\ pc' = "scan"
  /\ UNCHANGED <<fs, fs0, runstart, script, idx, files_updated, history, moves,
                 writes, ordervars>>

\* A buggy loop body: the file is written and reported whether or not it changed.
RenamerUpdateAlways ==
  /\ pc = "scan" /\ script = "renamer"
  /\ \E file_path \in NextFiles(todo) :
       LET content == RenamerReplace(fs[file_path]) IN
       /\ todo' = todo \ {file_path}
       /\ fs' = WriteText(fs, file_path, content)
       /\ writes' = writes \cup {file_path}
       /\ out' = Append(out, Line("Updated imports in", file_path, 0))
  /\ UNCHANGED <<fs0, runstart, pc, script, idx, files_updated, history, moves,
                 ordervars>>

\* One iteration of `for file_path in files_to_update`: read, replace every
\* pair, write and report if the content changed.
RenamerUpdate ==
  /\ pc = "scan" /\ script = "renamer"
  /\ \E file_path \in NextFiles(todo) :
       LET original_content == fs[file_path]
           content == RenamerReplace(original_content) IN
       /\ todo' = todo \ {file_path}
       /\ IF content # original_content
          THEN /\ fs' = WriteText(fs, file_path, content)
               /\ writes' = writes \cup {file_path}
               /\ out' = Append(out, Line("Updated imports in", file_path, 0))
          ELSE UNCHANGED <<fs, writes, out>>
  /\ UNCHANGED <<fs0, runstart, pc, script, idx, files_updated, history, moves,
                 ordervars>>

\* read_text or write_text raises (permissions, encoding): nothing catches it
\* in either script and the run ends there.
ScanFails ==
  /\ pc = "scan"
  /\ todo # {}
  /\ pc' = "aborted"
  /\ UNCHANGED <<fs, fs0, runstart, script, idx, todo, files_updated, out, history,
                 moves, writes, ordervars>>

\* The loop over the files is over: the two closing prints.
RenamerFinish ==
  /\ pc = "scan" /\ script = "renamer"
  /\ todo = {}
  /\ out' = out \o <<Line("Import updates complete!", "", 0),
                     Line("All done!", "", 0)>>
  /\ pc' = "done"
  /\ history' = Append(history, "renamer")
  /\ UNCHANGED <<fs, fs0, runstart, script, idx, todo, files_updated, moves, writes,
                 ordervars>>

----------------------------------------------------------------------------
(* The Import Fixer: scripts/fix-edra-imports.py, main() *)

\* The developer runs the Import Fixer: chdir, the first print, the files are
\* enumerated, the counter is set to 0.
StartFixer ==
  /\ pc \in {"idle", "done"}
  /\ Len(history) < MaxRuns
  /\ script' = "fixer"
  /\ pc' = "scan"
  /\ runstart' = fs
  /\ out' = <<Line("Fixing import statements...", "", 0)>>
  /\ todo' = files_to_update(fs)
  /\ files_updated' = 0
  /\ moves' = <<>>
  /\ writes' = {}
  /\ idx' = 0
  /\ UNCHANGED <<fs, fs0, history, ordervars>>

\* A buggy loop body: the file is written and counted whether or not it changed.
FixerUpdateAlways ==
  /\ pc = "scan" /\ script = "fixer"
  /\ \E file_path \in NextFiles(todo) :
       LET content == FixerReplace(fs[file_path]) IN
       /\ todo' = todo \ {file_path}
       /\ fs' = WriteText(fs, file_path, content)
       /\ writes' = writes \cup {file_path}
       /\ files_updated' = files_updated + 1
       /\ out' = Append(out, Line("Updated", file_path, 0))
  /\ UNCHANGED <<fs0, runstart, pc, script, idx, history, moves, ordervars>>

\* One iteration of `for file_path in files_to_update`: read, replace every
\* pair found, write, count and report if the content changed.
FixerUpdate ==
  /\ pc = "scan" /\ script = "fixer"
  /\ \E file_path \in NextFiles(todo) :
       LET original_content == fs[file_path]
           content == FixerReplace(original_content) IN
       /\ todo' = todo \ {file_path}
       /\ IF content # original_content
          THEN /\ fs' = WriteText(fs, file_path, content)
               /\ writes' = writes \cup {file_path}
               /\ files_updated' = files_updated + 1
               /\ out' = Append(out, Line("Updated", file_path, 0))
          ELSE UNCHANGED <<fs, writes, files_updated, out>>
  /\ UNCHANGED <<fs0, runstart, pc, script, idx, history, moves, ordervars>>

\* The loop over the files is over: the final count is printed.
FixerFinish ==
  /\ pc = "scan" /\ script = "fixer"
  /\ todo = {}
  /\ out' = Append(out, Line("Fixed imports in files", "", files_updated))
  /\ pc' = "done"
  /\ history' = Append(history, "fixer")
  /\ UNCHANGED <<fs, fs0, runstart, script, idx, todo, files_updated, moves, writes,
                 ordervars>>

Next ==
  \/ StartRenamer
  \/ WarnMissing
  \/ RenameByGit
  \/ RenameByFallback
  \/ FallbackFails
  \/ GitNotLaunched
  \/ BeginSecondPass
  \/ RenamerUpdate
  \/ ScanFails
  \/ RenamerFinish
  \/ StartFixer
  \/ FixerUpdate
  \/ FixerFinish

Spec == Init /\ [][Next]_vars

----------------------------------------------------------------------------
(* The replacement loop of the Renamer taken in another order *)

InitOrder ==
  /\ text0 \in Contents
  /\ text = text0
  /\ order \in Orders
  /\ pos = 0
  /\ fs = <<>> /\ fs0 = <<>> /\ runstart = <<>>
  /\ pc = "idle" /\ script = "none" /\ idx = 0 /\ todo = {}
  /\ files_updated = 0 /\ out = <<>> /\ history = <<>> /\ moves = <<>>
  /\ writes = {}

\* `content = content.replace(old_name, new_name)` for the next pair of the order.
ApplyPair ==
  /\ pos < Len(order)
  /\ text' = replace(text, old_name(order[pos + 1]), new_name(order[pos + 1]))
  /\ pos' = pos + 1
  /\ UNCHANGED <<text0, order, fsvars>>

NextOrder == ApplyPair

SpecOrder == InitOrder /\ [][NextOrder]_vars

----------------------------------------------------------------------------
(* What the properties speak of *)

RenamerDone == pc = "done" /\ script = "renamer"

FixerDone == pc = "done" /\ script = "fixer"

Pairs == 1..Len(RENAMES)

\* The content holds a key of the Renamer's mapping.
HasKey(c) == \E i \in 1..Len(replacements) : Contains(c, old_name(i))

\* The content holds a key of IMPORT_REPLACEMENTS.
HasImportKey(c) == \E i \in 1..Len(IMPORT_REPLACEMENTS) : Contains(c, old_import(i))

\* s without its last character
DropLast(s) == SubSeq(s, 1, Len(s) - 1)

\* The content holds a key occurrence right after a key that lacks its last
\* character, as in "MediaPlaceHolder.sveltEdraToolTip.svelte".
KeyCompletion(c) ==
  \E i, j \in 1..Len(replacements) :
    Contains(c, DropLast(old_name(i)) \o old_name(j))

Letters ==
  {"a","b","c","d","e","f","g","h","i","j","k","l","m","n","o","p","q","r","s",
   "t","u","v","w","x","y","z","A","B","C","D","E","F","G","H","I","J","K","L",
   "M","N","O","P","Q","R","S","T","U","V","W","X","Y","Z"}

\* The content holds a key occurrence with a letter right before it, as
\* "Menu.svelte" has in "BubbleMenu.svelte".
LetterBeforeKey(c) ==
  \E i \in 1..Len(replacements) :
    \E k \in Occurrences(c, old_name(i)) :
      k > 1 /\ SubSeq(c, k - 1, k - 1) \in Letters

\* Where the file now at p was when the current run of the Renamer started.
Origin(p) ==
  IF \E i \in Pairs : RENAMES[i][2] = p /\ RENAMES[i][1] \in DOMAIN runstart
  THEN RENAMES[CHOOSE i \in Pairs :
                 RENAMES[i][2] = p /\ RENAMES[i][1] \in DOMAIN runstart][1]
  ELSE p

\* The output lines of one kind.
LinesOf(kind) == {k \in 1..Len(out) : out[k].kind = kind}

----------------------------------------------------------------------------
(* Properties of the Renamer's first pass *)

\* C1 as stated: when a run of the Renamer has reached its last line, every
\* pair whose source existed when the run started has its source gone and its
\* destination holding exactly the bytes the source held before the run.
C1_ByteIdenticalAfterRun ==
  RenamerDone =>
    \A i \in Pairs :
      RENAMES[i][1] \in DOMAIN runstart =>
        /\ RENAMES[i][1] \notin DOMAIN fs
        /\ RENAMES[i][2] \in DOMAIN fs
        /\ fs[RENAMES[i][2]] = runstart[RENAMES[i][1]]

\* C1 (amended): when a run of the Renamer has reached its last line, every
\* pair whose source existed when the run started has its source gone and its
\* destination holding the source's former content as the second pass rewrites
\* it: every key replaced in iteration order, so the same bytes when that
\* content held no key.
C1_MovedAndRewritten ==
  RenamerDone =>
    \A i \in Pairs :
      RENAMES[i][1] \in DOMAIN runstart =>
        /\ RENAMES[i][1] \notin DOMAIN fs
        /\ RENAMES[i][2] \in DOMAIN fs
        /\ fs[RENAMES[i][2]] = RenamerReplace(runstart[RENAMES[i][1]])
        /\ ~HasKey(runstart[RENAMES[i][1]]) =>
             fs[RENAMES[i][2]] = runstart[RENAMES[i][1]]

\* A finished run that moved one file whose content held a key (and was
\* rewritten) and one whose content held none (and kept its bytes).
C1_Witness ==
  /\ RenamerDone
  /\ \E i, j \in Pairs :
       /\ RENAMES[i][1] \in DOMAIN runstart
       /\ HasKey(runstart[RENAMES[i][1]])
       /\ fs[RENAMES[i][2]] # runstart[RENAMES[i][1]]
       /\ RENAMES[j][1] \in DOMAIN runstart
       /\ ~HasKey(runstart[RENAMES[j][1]])
       /\ fs[RENAMES[j][2]] = runstart[RENAMES[j][1]]

\* C2: a pair whose source does not exist gets a warning line, ends nothing
\* (the loop goes on to the next pair) and changes no file; and for as long as
\* the run lasts its destination stays absent if it was absent and present if
\* it was present.
C2_MissingSourceIsSkipped ==
  /\ [][(InRename /\ RENAMES[idx][1] \notin DOMAIN fs) =>
          /\ out' = Append(out, Line("Warning: File not found", RENAMES[idx][1], 0))
          /\ pc' = "rename"
          /\ idx' = idx + 1
          /\ fs' = fs]_vars
  /\ [](script = "renamer" =>
          \A i \in Pairs :
            (i < idx /\ RENAMES[i][1] \notin DOMAIN runstart) =>
              (RENAMES[i][2] \in DOMAIN fs <=> RENAMES[i][2] \in DOMAIN runstart))

\* A finished run that warned about a missing source whose destination was
\* there before and is still there, and that renamed a pair after a warning.
C2_Witness ==
  /\ RenamerDone
  /\ \E i \in Pairs :
       /\ RENAMES[i][1] \notin DOMAIN runstart
       /\ RENAMES[i][2] \in DOMAIN runstart
       /\ RENAMES[i][2] \in DOMAIN fs
       /\ \E k \in LinesOf("Warning: File not found") : out[k].path = RENAMES[i][1]
  /\ \E k \in LinesOf("Warning: File not found") :
       \E m \in LinesOf("Renaming") : k < m

----------------------------------------------------------------------------
(* Properties of the Renamer's second pass *)

\* C3 as stated: when a run of the Renamer has reached its last line, no *.ts
\* or *.svelte file under edra_dir contains a key of the mapping, whatever the
\* files held before.
C3_NoOldTokenLeft ==
  RenamerDone => \A p \in files_to_update(fs) : ~HasKey(fs[p])

\* C3 (amended): when a run of the Renamer has reached its last line, a *.ts or
\* *.svelte file under edra_dir contains no key of the mapping, provided that
\* its content at the start of the run held no key occurrence right after a
\* key that lacks its last character (the replacement would complete that key,
\* and a key already passed in iteration order is not looked for again).
C3_NoOldTokenLeftUnlessCompleted ==
  RenamerDone =>
    \A p \in files_to_update(fs) :
      ~KeyCompletion(runstart[Origin(p)]) => ~HasKey(fs[p])

\* A finished run over a file that held keys, none completing another, and
\* holds none now.
C3_Witness ==
  /\ RenamerDone
  /\ \E p \in files_to_update(fs) :
       /\ HasKey(runstart[Origin(p)])
       /\ ~KeyCompletion(runstart[Origin(p)])
       /\ ~HasKey(fs[p])

\* C6 as stated: when a run of the Renamer has reached its last line, its
\* output holds a line reporting a count, and the count is the number of files
\* the second pass wrote.
C6_ReportsCount ==
  RenamerDone =>
    \E k \in 1..Len(out) :
      /\ out[k].kind = "Fixed imports in files"
      /\ out[k].n = Cardinality(writes)

\* C6 (amended): when a run of the Renamer has reached its last line, the
\* files it wrote are the *.ts and *.svelte files under edra_dir whose content
\* the replacements changed, each has exactly one "Updated imports in" line
\* and no other file has one; the output reports no count: it ends with the
\* two fixed closing lines.
C6_OneLinePerRewrittenFile ==
  RenamerDone =>
    /\ writes = {p \in files_to_update(fs) : fs[p] # runstart[Origin(p)]}
    /\ {out[k].path : k \in LinesOf("Updated imports in")} = writes
    /\ Cardinality(LinesOf("Updated imports in")) = Cardinality(writes)
    /\ \A k \in 1..Len(out) : out[k].n = 0 /\ out[k].kind # "Fixed imports in files"
    /\ out[Len(out)] = Line("All done!", "", 0)
    /\ out[Len(out) - 1] = Line("Import updates complete!", "", 0)

\* A finished run that rewrote a file and left another scanned file as it was.
C6_Witness ==
  /\ RenamerDone
  /\ writes # {}
  /\ files_to_update(fs) \ writes # {}

----------------------------------------------------------------------------
(* Properties of the failures of the first pass *)

\* C5: whenever `git mv` fails for an existing source, by a non-zero exit or
\* by not being launched at all, the fallback rename is attempted.
C5_FallbackOnAnyGitFailure ==
  \A k \in 1..Len(moves) : moves[k].git # "ok" => moves[k].mv # "none"

\* C8: when the fallback rename of a pair fails, the run ends at that pair: the
\* filesystem is the one the pairs before it left (their moves applied, nothing
\* else touched), each pair got its one line and no later pair got any, and the
\* second pass wrote nothing.
C8_NoRollback ==
  (pc = "aborted" /\ script = "renamer" /\ moves # <<>>
     /\ moves[Len(moves)].mv = "fail") =>
    /\ idx = moves[Len(moves)].i
    /\ fs = FirstPass(runstart, 1, idx - 1)
    /\ \A j \in 1..(idx - 1) :
         RENAMES[j][1] \in DOMAIN runstart =>
           /\ RENAMES[j][1] \notin DOMAIN fs
           /\ RENAMES[j][2] \in DOMAIN fs
           /\ fs[RENAMES[j][2]] = runstart[RENAMES[j][1]]
    /\ Cardinality(LinesOf("Renaming") \cup LinesOf("Warning: File not found")) = idx
    /\ LinesOf("Updated imports in") = {}
    /\ writes = {}
    /\ todo = {}

\* A run ended by a failed fallback rename after an earlier pair was moved.
C8_Witness ==
  /\ pc = "aborted" /\ script = "renamer" /\ moves # <<>>
  /\ moves[Len(moves)].mv = "fail"
  /\ \E j \in 1..(idx - 1) :
       RENAMES[j][1] \in DOMAIN runstart /\ RENAMES[j][2] \in DOMAIN fs

----------------------------------------------------------------------------
(* Properties of the Import Fixer *)

\* C4: a run of the Import Fixer right after a finished run of it writes no
\* file and reports 0; and after any finished run no *.ts or *.svelte file
\* under edra_dir contains a key of IMPORT_REPLACEMENTS.
C4_FixerIdempotent ==
  FixerDone =>
    /\ \A p \in files_to_update(fs) : ~HasImportKey(fs[p])
    /\ (Len(history) >= 2 /\ history[Len(history) - 1] = "fixer") =>
         /\ writes = {}
         /\ files_updated = 0
         /\ fs = runstart
         /\ out[Len(out)] = Line("Fixed imports in files", "", 0)

\* A second run in succession, after a first run that changed a file.
C4_Witness ==
  /\ FixerDone
  /\ history = <<"fixer", "fixer">>
  /\ fs # fs0

\* C9: during a run of the Import Fixer the set of existing paths stays what
\* it was; when the run has reached its last line, the files written are the
\* *.ts and *.svelte files under edra_dir whose content held a key of
\* IMPORT_REPLACEMENTS, every other file holds what it held, and the last line
\* reports the number of files written.
C9_FixerFrame ==
  script = "fixer" =>
    /\ DOMAIN fs = DOMAIN runstart
    /\ pc = "done" =>
         /\ writes = {p \in files_to_update(runstart) : HasImportKey(runstart[p])}
         /\ \A p \in DOMAIN fs \ writes : fs[p] = runstart[p]
         /\ \A p \in writes : fs[p] # runstart[p]
         /\ files_updated = Cardinality(writes)
         /\ out[Len(out)] = Line("Fixed imports in files", "", Cardinality(writes))

\* A finished run that wrote a file and left alone a file that holds a key
\* but lies outside edra_dir or has another extension.
C9_Witness ==
  /\ FixerDone
  /\ writes # {}
  /\ \E p \in DOMAIN fs \ writes : HasImportKey(fs[p])

----------------------------------------------------------------------------
(* The two scripts one after the other *)

\* Both orders, each script run once and to its last line.
BothRan ==
  pc = "done" /\ history \in {<<"renamer", "fixer">>, <<"fixer", "renamer">>}

\* What the other order leaves behind from the same first filesystem.
OtherOrder ==
  IF history = <<"renamer", "fixer">>
  THEN RenamerRun(FixerRun(fs0))
  ELSE FixerRun(RenamerRun(fs0))

\* C7 as stated: from any filesystem, the Renamer then the Import Fixer leave
\* the same paths with the same contents as the Import Fixer then the Renamer.
C7_Commute == BothRan => fs = OtherOrder

\* C7 (amended): the two orders, each run reaching its last line, leave the
\* same paths with the same contents provided that no *.ts or *.svelte file
\* under edra_dir holds ".jS" (where the Renamer, turning "SlashCommandList"
\* or "SearchAndReplace" to lower case, completes a key of the Import Fixer).
C7_CommuteUnlessCompleted ==
  (BothRan /\ \A p \in files_to_update(fs0) : ~Contains(fs0[p], ".jS")) =>
    fs = OtherOrder

\* Both orders are reached with a file that held keys of both mappings and a
\* file that was renamed.
C7_Witness ==
  /\ BothRan
  /\ \A p \in files_to_update(fs0) : ~Contains(fs0[p], ".jS")
  /\ \E p \in files_to_update(fs0) : HasKey(fs0[p]) /\ HasImportKey(fs0[p])
  /\ DOMAIN fs # DOMAIN fs0

----------------------------------------------------------------------------
(* The order of the replacements *)

\* C10 as stated: whatever order the pairs are applied in, the content ends as
\* it does in the mapping's iteration order.
C10_AnyOrder ==
  pos = Len(replacements) => text = RenamerReplace(text0)

\* C10 (amended): the pairs are applied one after the other, each to the text
\* the earlier ones left. The content ends the same in every order provided
\* that no key occurrence in it has a letter right before it; otherwise the
\* order decides ("BubbleMenu.svelte" ends as "bubble-menu.svelte" in iteration
\* order and as "Bubblemenu.svelte" when "Menu.svelte" is applied first).
C10_AnyOrderWhenDelimited ==
  (pos = Len(replacements) /\ ~LetterBeforeKey(text0)) =>
    text = RenamerReplace(text0)

\* All pairs applied in another order than the mapping's to a content whose
\* keys stand alone, and the content changed.
C10_Witness ==
  /\ pos = Len(replacements)
  /\ order # Rotation(0)
  /\ HasKey(text0)
  /\ ~LetterBeforeKey(text0)
  /\ text # text0

====
